---- MODULE Spec2Model ----
(***************************************************************************)
(* The synchronisation syscalls of one process (os/src/syscall/sync.rs)    *)
(* together with the resource accounting of os/src/sync/mod.rs and the     *)
(* Banker's check detect_deadlock.                                         *)
(*                                                                         *)
(* One process, whose threads are the tasks 0 .. NumTasks-1 (the index of  *)
(* a task in process_inner.tasks is its tid).  The kernel runs on one core *)
(* and a syscall runs without interruption up to its next suspension       *)
(* point, so every action below is one syscall up to the point where it    *)
(* returns or suspends its caller, or the rest of a syscall after its      *)
(* caller was woken.                                                       *)
(*                                                                         *)
(* Vec<T> is a sequence; the element with index i is vec[i + 1].           *)
(*                                                                         *)
(* The accounting tables hold u32.  The kernel is built without overflow   *)
(* checks, so += and -= wrap modulo 2^32.  A u32 is kept here as its       *)
(* two's-complement reading: v stands for itself when v < 2^31 and v - 2^32*)
(* stands for v otherwise, so 0 - 1 = 0xFFFF_FFFF is kept as -1.  Plain +   *)
(* and - on these readings are the wrapping operations as long as no entry *)
(* crosses 2^31, which the caps below exclude; the comparison of two u32   *)
(* is u32_le.                                                              *)
(***************************************************************************)
EXTENDS Integers, Sequences, FiniteSets, TLC

\* threads of the process (process_inner.tasks.len())
NumTasks == 2
\* threads and resources of the process in the serialized runs
SerialTasks == 3
SerialResources == 2
\* most mutexes / semaphores the process creates
MaxMutex == 2
MaxSem == 1
\* largest res_count given to sys_semaphore_create
MaxCount == 1
\* largest argument given to sys_enable_deadlock_detect
MaxArg == 2
\* caps on the magnitude of an entry of available, and of allocation / need
MaxAvail == 2
MaxEntry == 1

\* the refusal result of sys_mutex_lock / sys_semaphore_down: -0xDEAD
DEAD == -57005
\* ret: the value the last step returned to its caller; nothing when no syscall
\* has run yet or the step suspended its caller
Ret(value) == <<value>>
NoRet == <<>>

\* Option::None of a task index
NoTask == -1
NoId == NoTask

VARIABLES
    mutex_list,           \* process_inner.mutex_list
    semaphore_list,       \* process_inner.semaphore_list
    deadlock_detection,   \* process_inner.deadlock_detection
    available,            \* deadlock_detection_support.available
    allocation,           \* deadlock_detection_support.allocation
    need,                 \* deadlock_detection_support.need
    pc,                   \* per tid of process_inner.tasks: in user code, or where inside a syscall
    ret,                  \* what the last step returned to its caller
    condvar_list,         \* process_inner.condvar_list
    ready_queue,          \* TaskManager.ready_queue: the tasks in the heap
    stride,               \* tcb.stride of every task the scheduler manages
    priority,             \* tcb.priority of every task the scheduler manages
    fetched,              \* what the last fetch() returned (an Option)
    selections,           \* how many times fetch() has returned each task
    panicked,             \* the kernel has panicked
    children,             \* inner.children of the process calling sys_waitpid
    exit_code_out,        \* the i32 at exit_code_ptr in the caller's memory
    timers,               \* the timer conditions registered by add_timer
    time_ms               \* get_time_ms()

sync_vars == <<mutex_list, semaphore_list, deadlock_detection, available, allocation, need>>

tables == <<available, allocation, need>>

sched_vars == <<ready_queue, stride, priority, fetched, selections, panicked>>

proc_vars == <<children, exit_code_out>>

timer_vars == <<timers, time_ms>>

\* what the syscalls on mutexes and semaphores never touch
not_sync == <<condvar_list, sched_vars, proc_vars, timer_vars>>

vars == <<sync_vars, pc, ret, not_sync>>

\* the tids of process_inner.tasks
Tasks == DOMAIN pc

(***************************************************************************)
(* Vec helpers                                                             *)
(***************************************************************************)
Max(a, b) == IF a >= b THEN a ELSE b

\* fn ensure_capacity: vec.resize(vec.len().max(len), value)
ensure_capacity(vec, len, value) ==
    vec \o [k \in 1 .. (Max(Len(vec), len) - Len(vec)) |-> value]

\* vec.get(idx).unwrap_or(&Vec::new())
get_or_empty(vec, idx) == IF idx < Len(vec) THEN vec[idx + 1] ELSE <<>>

\* unsigned comparison of two u32 kept as two's-complement readings
u32_le(a, b) == IF (a < 0) = (b < 0) THEN a <= b ELSE b < 0

(***************************************************************************)
(* Resource accounting (os/src/sync/mod.rs)                                *)
(***************************************************************************)
deadlock_detection_available_alloc(av, res_id, res_count) ==
    LET v == ensure_capacity(av, res_id + 1, 0)
    IN  [v EXCEPT ![res_id + 1] = @ + res_count]

deadlock_detection_available_free(av, res_id, res_count) ==
    LET v == ensure_capacity(av, res_id + 1, 0)
    IN  [v EXCEPT ![res_id + 1] = @ - res_count]

deadlock_detection_allocation_alloc(al, tid, res_id) ==
    LET rows == ensure_capacity(al, tid + 1, <<>>)
        row == ensure_capacity(rows[tid + 1], res_id + 1, 0)
    IN  [rows EXCEPT ![tid + 1] = [row EXCEPT ![res_id + 1] = @ + 1]]

\* allocation_free that leaves an entry of 0 at 0
allocation_free_saturating(al, tid, res_id) ==
    LET rows == ensure_capacity(al, tid + 1, <<>>)
        row == ensure_capacity(rows[tid + 1], res_id + 1, 0)
    IN  [rows EXCEPT ![tid + 1] = [row EXCEPT ![res_id + 1] = IF @ = 0 THEN 0 ELSE @ - 1]]

deadlock_detection_allocation_free(al, tid, res_id) ==
    LET rows == ensure_capacity(al, tid + 1, <<>>)
        row == ensure_capacity(rows[tid + 1], res_id + 1, 0)
    IN  [rows EXCEPT ![tid + 1] = [row EXCEPT ![res_id + 1] = @ - 1]]

deadlock_detection_need_alloc(nd, tid, res_id) ==
    LET rows == ensure_capacity(nd, tid + 1, <<>>)
        row == ensure_capacity(rows[tid + 1], res_id + 1, 0)
    IN  [rows EXCEPT ![tid + 1] = [row EXCEPT ![res_id + 1] = @ + 1]]

deadlock_detection_need_free(nd, tid, res_id) ==
    LET rows == ensure_capacity(nd, tid + 1, <<>>)
        row == ensure_capacity(rows[tid + 1], res_id + 1, 0)
    IN  [rows EXCEPT ![tid + 1] = [row EXCEPT ![res_id + 1] = @ - 1]]

(***************************************************************************)
(* detect_deadlock (os/src/syscall/sync.rs); n is process_inner.tasks.len() *)
(***************************************************************************)
\* finish after the for_each: true for the rows of allocation that are all zero
finish_init(n, al) ==
    [idx \in 0 .. (n - 1) |->
        idx < Len(al) /\ \A j \in 1 .. Len(al[idx + 1]) : al[idx + 1][j] = 0]

\* find with the comparison need < work in place of need <= work
find_strict(n, finish, work, nd) ==
    LET fits(idx) == \A j \in 1 .. Len(get_or_empty(nd, idx)) :
                        /\ u32_le(get_or_empty(nd, idx)[j], work[j])
                        /\ get_or_empty(nd, idx)[j] # work[j]
        found == {idx \in 0 .. (n - 1) : ~finish[idx] /\ fits(idx)}
    IN  IF found = {} THEN NoTask
        ELSE CHOOSE idx \in found : \A other \in found : idx <= other

\* fn _find: the first task that is not finished and whose need fits in work
find(n, finish, work, nd) ==
    LET fits(idx) == \A j \in 1 .. Len(get_or_empty(nd, idx)) :
                        u32_le(get_or_empty(nd, idx)[j], work[j])
        found == {idx \in 0 .. (n - 1) : ~finish[idx] /\ fits(idx)}
    IN  IF found = {} THEN NoTask
        ELSE CHOOSE idx \in found : \A other \in found : idx <= other

\* for_each(|(idx, x)| work[idx] += x)
add_row(work, row) ==
    [j \in 1 .. Len(work) |-> IF j <= Len(row) THEN work[j] + row[j] ELSE work[j]]

\* the while let Some(idx) = find loop; the value is finish when it ends
RECURSIVE banker_loop(_, _, _, _, _)
banker_loop(n, finish, work, al, nd) ==
    LET idx == find(n, finish, work, nd)
    IN  IF idx = NoTask THEN finish
        ELSE banker_loop(n, [finish EXCEPT ![idx] = TRUE],
                         add_row(work, get_or_empty(al, idx)), al, nd)

\* detect_deadlock without the early return on a disabled flag
detect_deadlock_unconditional(dd, n, av, al, nd) ==
    \E idx \in 0 .. (n - 1) : ~banker_loop(n, finish_init(n, al), av, al, nd)[idx]

detect_deadlock(dd, n, av, al, nd) ==
    IF ~dd THEN FALSE
    ELSE \E idx \in 0 .. (n - 1) : ~banker_loop(n, finish_init(n, al), av, al, nd)[idx]

(***************************************************************************)
(* The primitives (os/src/sync/mutex.rs, semaphore.rs)                     *)
(***************************************************************************)
\* MutexSpin::new / MutexBlocking::new
Mutex_new(blocking) ==
    [blocking |-> blocking, locked |-> FALSE, owner |-> NoTask, wait_queue |-> <<>>]

\* lock(): a free mutex becomes locked by the caller; a held blocking mutex
\* enqueues the caller; a held spin mutex is left as it is (the caller yields)
Mutex_lock(mutex, tid) ==
    IF ~mutex.locked THEN [mutex EXCEPT !.locked = TRUE, !.owner = tid]
    ELSE IF mutex.blocking THEN [mutex EXCEPT !.wait_queue = Append(@, tid)]
    ELSE mutex

\* unlock(): hand over to the head of the wait queue, or become unlocked
Mutex_unlock(mutex) ==
    IF mutex.wait_queue # <<>>
    THEN [mutex EXCEPT !.owner = Head(mutex.wait_queue), !.wait_queue = Tail(@)]
    ELSE [mutex EXCEPT !.locked = FALSE, !.owner = NoTask]

\* Semaphore::new; res_count keeps the argument for the statements below
Semaphore_new(res_count) ==
    [count |-> res_count, wait_queue |-> <<>>, res_count |-> res_count]

\* down(): decrement; a negative count parks the caller
Semaphore_down(sem, tid) ==
    IF sem.count - 1 < 0
    THEN [sem EXCEPT !.count = @ - 1, !.wait_queue = Append(@, tid)]
    ELSE [sem EXCEPT !.count = @ - 1]

\* up(): increment; wake the head of the wait queue if there is one
Semaphore_up(sem) ==
    IF sem.wait_queue # <<>>
    THEN [sem EXCEPT !.count = @ + 1, !.wait_queue = Tail(@)]
    ELSE [sem EXCEPT !.count = @ + 1]

(***************************************************************************)
(* Positions of a task                                                     *)
(***************************************************************************)
InUser == [at |-> "user", id |-> NoId]
At(where, id) == [at |-> where, id |-> id]

\* every entry of the three tables is within its cap (a bound of the exploration)
InBounds(av, al, nd) ==
    /\ \A j \in 1 .. Len(av) : av[j] \in -MaxAvail .. MaxAvail
    /\ \A i \in 1 .. Len(al) : \A j \in 1 .. Len(al[i]) : al[i][j] \in -MaxEntry .. MaxEntry
    /\ \A i \in 1 .. Len(nd) : \A j \in 1 .. Len(nd[i]) : nd[i][j] \in -MaxEntry .. MaxEntry

\* an empty slot of a slot table (Option::None)
is_none(item) == DOMAIN item = {"none"}

\* new_id that takes the length of the list minus one before the push
new_id_before_push(list) == Max(Len(list) - 1, 0)

\* .iter().enumerate().find(|(_, item)| item.is_none()), else push
new_id(list) ==
    LET empty == {i \in 1 .. Len(list) : is_none(list[i])}
    IN  IF empty = {} THEN Len(list)
        ELSE (CHOOSE i \in empty : \A k \in empty : i <= k) - 1

put(list, id, item) ==
    IF id < Len(list) THEN [list EXCEPT ![id + 1] = item] ELSE Append(list, item)

MutexIds == 0 .. (Len(mutex_list) - 1)
SemIds == 0 .. (Len(semaphore_list) - 1)

\* the state outside the mutexes and semaphores of the process: no condition
\* variable, an idle scheduler, no child, no timer
InitNotSync ==
    /\ condvar_list = <<>>
    /\ ready_queue = {}
    /\ stride = <<>>
    /\ priority = <<>>
    /\ fetched = <<>>
    /\ selections = <<>>
    /\ panicked = FALSE
    /\ children = <<>>
    /\ exit_code_out = <<>>
    /\ timers = {}
    /\ time_ms = 0

Init ==
    /\ mutex_list = <<>>
    /\ semaphore_list = <<>>
    /\ deadlock_detection = FALSE
    /\ available = <<>>
    /\ allocation = <<>>
    /\ need = <<>>
    /\ pc = [t \in 0 .. (NumTasks - 1) |-> InUser]
    /\ ret = NoRet
    /\ InitNotSync

(***************************************************************************)
(* The syscalls                                                            *)
(***************************************************************************)
sys_mutex_create(t, blocking) ==
    /\ pc[t].at = "user"
    /\ LET id == new_id(mutex_list)
       IN  /\ mutex_list' = put(mutex_list, id, Mutex_new(blocking))
           /\ available' = deadlock_detection_available_alloc(available, id, 1)
           /\ ret' = Ret(id)
    /\ UNCHANGED <<semaphore_list, deadlock_detection, allocation, need, pc>>
    /\ UNCHANGED not_sync

sys_semaphore_create(t, res_count) ==
    /\ pc[t].at = "user"
    /\ LET id == new_id(semaphore_list)
       IN  /\ semaphore_list' = put(semaphore_list, id, Semaphore_new(res_count))
           /\ available' = deadlock_detection_available_alloc(available, id, res_count)
           /\ ret' = Ret(id)
    /\ UNCHANGED <<mutex_list, deadlock_detection, allocation, need, pc>>
    /\ UNCHANGED not_sync

sys_mutex_lock(t, mutex_id) ==
    /\ pc[t].at = "user"
    /\ mutex_id \in MutexIds
    /\ LET need1 == deadlock_detection_need_alloc(need, t, mutex_id)
           mutex == mutex_list[mutex_id + 1]
       IN  IF detect_deadlock(deadlock_detection, Cardinality(Tasks), available, allocation, need1)
           THEN /\ need' = need1
                /\ ret' = Ret(DEAD)
                /\ UNCHANGED <<available, allocation, mutex_list, pc>>
           ELSE /\ available' = deadlock_detection_available_free(available, mutex_id, 1)
                /\ allocation' = deadlock_detection_allocation_alloc(allocation, t, mutex_id)
                /\ need' = deadlock_detection_need_free(need1, t, mutex_id)
                /\ mutex_list' = [mutex_list EXCEPT ![mutex_id + 1] = Mutex_lock(mutex, t)]
                /\ IF mutex.locked
                   THEN /\ pc' = [pc EXCEPT ![t] =
                                    At(IF mutex.blocking THEN "mutex_blocked" ELSE "mutex_spin",
                                       mutex_id)]
                        /\ ret' = NoRet
                   ELSE /\ ret' = Ret(0)
                        /\ pc' = pc
    /\ UNCHANGED <<semaphore_list, deadlock_detection>>
    /\ UNCHANGED not_sync

\* a task woken by unlock returns from mutex.lock() and from the syscall
mutex_lock_return(t) ==
    /\ pc[t].at = "mutex_woken"
    /\ pc' = [pc EXCEPT ![t] = InUser]
    /\ ret' = Ret(0)
    /\ UNCHANGED <<mutex_list, semaphore_list, deadlock_detection, available, allocation, need>>
    /\ UNCHANGED not_sync

\* a task in the yield loop of MutexSpin::lock finds the mutex free
mutex_spin_retry(t) ==
    /\ pc[t].at = "mutex_spin"
    /\ ~mutex_list[pc[t].id + 1].locked
    /\ mutex_list' = [mutex_list EXCEPT ![pc[t].id + 1] = Mutex_lock(@, t)]
    /\ pc' = [pc EXCEPT ![t] = InUser]
    /\ ret' = Ret(0)
    /\ UNCHANGED <<semaphore_list, deadlock_detection, available, allocation, need>>
    /\ UNCHANGED not_sync

\* sys_mutex_unlock whose mutex.unlock() frees the mutex and wakes the head of
\* the wait queue to take it again, instead of handing it over
sys_mutex_unlock_no_handoff(t, mutex_id) ==
    /\ pc[t].at = "user"
    /\ mutex_id \in MutexIds
    /\ mutex_list[mutex_id + 1].owner = t
    /\ available' = deadlock_detection_available_alloc(available, mutex_id, 1)
    /\ allocation' = deadlock_detection_allocation_free(allocation, t, mutex_id)
    /\ LET mutex == mutex_list[mutex_id + 1]
       IN  /\ mutex_list' = [mutex_list EXCEPT ![mutex_id + 1] =
                                [mutex EXCEPT !.locked = FALSE, !.owner = NoTask,
                                              !.wait_queue = IF @ = <<>> THEN @ ELSE Tail(@)]]
           /\ pc' = IF mutex.wait_queue # <<>>
                    THEN [pc EXCEPT ![Head(mutex.wait_queue)] = At("mutex_woken", mutex_id)]
                    ELSE pc
    /\ ret' = Ret(0)
    /\ UNCHANGED <<semaphore_list, deadlock_detection, need>>
    /\ UNCHANGED not_sync

\* unlock does not check the owner: the callers unlock only a mutex they hold
sys_mutex_unlock(t, mutex_id) ==
    /\ pc[t].at = "user"
    /\ mutex_id \in MutexIds
    /\ mutex_list[mutex_id + 1].owner = t
    /\ available' = deadlock_detection_available_alloc(available, mutex_id, 1)
    /\ allocation' = deadlock_detection_allocation_free(allocation, t, mutex_id)
    /\ LET mutex == mutex_list[mutex_id + 1]
       IN  /\ mutex_list' = [mutex_list EXCEPT ![mutex_id + 1] = Mutex_unlock(mutex)]
           /\ pc' = IF mutex.wait_queue # <<>>
                    THEN [pc EXCEPT ![Head(mutex.wait_queue)] = At("mutex_woken", mutex_id)]
                    ELSE pc
    /\ ret' = Ret(0)
    /\ UNCHANGED <<semaphore_list, deadlock_detection, need>>
    /\ UNCHANGED not_sync

sys_semaphore_up(t, sem_id) ==
    /\ pc[t].at = "user"
    /\ sem_id \in SemIds
    /\ LET sem == semaphore_list[sem_id + 1]
       IN  /\ semaphore_list' = [semaphore_list EXCEPT ![sem_id + 1] = Semaphore_up(sem)]
           /\ pc' = IF sem.wait_queue # <<>>
                    THEN [pc EXCEPT ![Head(sem.wait_queue)] = At("sem_woken", sem_id)]
                    ELSE pc
    /\ available' = deadlock_detection_available_alloc(available, sem_id, 1)
    /\ allocation' = deadlock_detection_allocation_free(allocation, t, sem_id)
    /\ ret' = Ret(0)
    /\ UNCHANGED <<mutex_list, deadlock_detection, need>>
    /\ UNCHANGED not_sync

\* the three table updates that follow sem.down()
semaphore_down_account(t, sem_id, nd) ==
    /\ available' = deadlock_detection_available_free(available, sem_id, 1)
    /\ allocation' = deadlock_detection_allocation_alloc(allocation, t, sem_id)
    /\ need' = deadlock_detection_need_free(nd, t, sem_id)

\* sys_semaphore_down with the three updates before sem.down(), as in sys_mutex_lock
sys_semaphore_down_eager(t, sem_id) ==
    /\ pc[t].at = "user"
    /\ sem_id \in SemIds
    /\ LET need1 == deadlock_detection_need_alloc(need, t, sem_id)
           sem == semaphore_list[sem_id + 1]
       IN  IF detect_deadlock(deadlock_detection, Cardinality(Tasks), available, allocation, need1)
           THEN /\ need' = need1
                /\ ret' = Ret(DEAD)
                /\ UNCHANGED <<available, allocation, semaphore_list, pc>>
           ELSE /\ semaphore_down_account(t, sem_id, need1)
                /\ semaphore_list' = [semaphore_list EXCEPT ![sem_id + 1] = Semaphore_down(sem, t)]
                /\ IF sem.count - 1 < 0
                   THEN pc' = [pc EXCEPT ![t] = At("sem_blocked", sem_id)] /\ ret' = NoRet
                   ELSE pc' = pc /\ ret' = Ret(0)
    /\ UNCHANGED <<mutex_list, deadlock_detection>>
    /\ UNCHANGED not_sync

\* sys_semaphore_down that returns 0 at once from a semaphore without a free unit
sys_semaphore_down_no_wait(t, sem_id) ==
    /\ pc[t].at = "user"
    /\ sem_id \in SemIds
    /\ LET need1 == deadlock_detection_need_alloc(need, t, sem_id)
           sem == semaphore_list[sem_id + 1]
       IN  IF detect_deadlock(deadlock_detection, Cardinality(Tasks), available, allocation, need1)
           THEN /\ need' = need1
                /\ ret' = Ret(DEAD)
                /\ UNCHANGED <<available, allocation, semaphore_list, pc>>
           ELSE /\ semaphore_list' = [semaphore_list EXCEPT ![sem_id + 1].count = @ - 1]
                /\ semaphore_down_account(t, sem_id, need1)
                /\ ret' = Ret(0)
                /\ pc' = pc
    /\ UNCHANGED <<mutex_list, deadlock_detection>>
    /\ UNCHANGED not_sync

sys_semaphore_down(t, sem_id) ==
    /\ pc[t].at = "user"
    /\ sem_id \in SemIds
    /\ LET need1 == deadlock_detection_need_alloc(need, t, sem_id)
           sem == semaphore_list[sem_id + 1]
       IN  IF detect_deadlock(deadlock_detection, Cardinality(Tasks), available, allocation, need1)
           THEN /\ need' = need1
                /\ ret' = Ret(DEAD)
                /\ UNCHANGED <<available, allocation, semaphore_list, pc>>
           ELSE /\ semaphore_list' = [semaphore_list EXCEPT ![sem_id + 1] = Semaphore_down(sem, t)]
                /\ IF sem.count - 1 < 0
                   THEN /\ pc' = [pc EXCEPT ![t] = At("sem_blocked", sem_id)]
                        /\ need' = need1
                        /\ ret' = NoRet
                        /\ UNCHANGED <<available, allocation>>
                   ELSE /\ semaphore_down_account(t, sem_id, need1)
                        /\ ret' = Ret(0)
                        /\ pc' = pc
    /\ UNCHANGED <<mutex_list, deadlock_detection>>
    /\ UNCHANGED not_sync

\* a task woken by up returns from sem.down() and finishes the syscall
semaphore_down_return(t) ==
    /\ pc[t].at = "sem_woken"
    /\ semaphore_down_account(t, pc[t].id, need)
    /\ pc' = [pc EXCEPT ![t] = InUser]
    /\ ret' = Ret(0)
    /\ UNCHANGED <<mutex_list, semaphore_list, deadlock_detection>>
    /\ UNCHANGED not_sync

\* sys_enable_deadlock_detect that takes every argument but 0 as 1
sys_enable_deadlock_detect_nonzero(t, enabled) ==
    /\ pc[t].at = "user"
    /\ deadlock_detection' = (enabled # 0)
    /\ ret' = Ret(0)
    /\ UNCHANGED <<mutex_list, semaphore_list, available, allocation, need, pc>>
    /\ UNCHANGED not_sync

sys_enable_deadlock_detect(t, enabled) ==
    /\ pc[t].at = "user"
    /\ IF enabled = 0 THEN deadlock_detection' = FALSE /\ ret' = Ret(0)
       ELSE IF enabled = 1 THEN deadlock_detection' = TRUE /\ ret' = Ret(0)
       ELSE deadlock_detection' = deadlock_detection /\ ret' = Ret(-1)
    /\ UNCHANGED <<mutex_list, semaphore_list, available, allocation, need, pc>>
    /\ UNCHANGED not_sync

\* the step leaves the tables within the caps
Bounded == InBounds(available', allocation', need')

\* every syscall but the toggle of the detection flag
NextSync ==
    \/ \E t \in Tasks, blocking \in BOOLEAN :
          Len(mutex_list) < MaxMutex /\ sys_mutex_create(t, blocking) /\ Bounded
    \/ \E t \in Tasks, res_count \in 0 .. MaxCount :
          Len(semaphore_list) < MaxSem /\ sys_semaphore_create(t, res_count) /\ Bounded
    \/ \E t \in Tasks, m \in MutexIds : sys_mutex_lock(t, m) /\ Bounded
    \/ \E t \in Tasks : mutex_lock_return(t)
    \/ \E t \in Tasks : mutex_spin_retry(t)
    \/ \E t \in Tasks, m \in MutexIds : sys_mutex_unlock(t, m) /\ Bounded
    \/ \E t \in Tasks, s \in SemIds : sys_semaphore_up(t, s) /\ Bounded
    \/ \E t \in Tasks, s \in SemIds : sys_semaphore_down(t, s) /\ Bounded
    \/ \E t \in Tasks : semaphore_down_return(t) /\ Bounded

Next ==
    \/ NextSync
    \/ \E t \in Tasks, enabled \in 0 .. MaxArg : sys_enable_deadlock_detect(t, enabled)

Spec == Init /\ [][Next]_vars

(***************************************************************************)
(* The process after sys_enable_deadlock_detect(1) as its first syscall,   *)
(* the flag staying enabled.                                               *)
(***************************************************************************)
InitDetect ==
    /\ mutex_list = <<>>
    /\ semaphore_list = <<>>
    /\ deadlock_detection = TRUE
    /\ available = <<>>
    /\ allocation = <<>>
    /\ need = <<>>
    /\ pc = [t \in 0 .. (NumTasks - 1) |-> InUser]
    /\ ret = Ret(0)
    /\ InitNotSync

SpecDetect == InitDetect /\ [][NextSync]_vars

(***************************************************************************)
(* Reading the tables: an entry that was never allocated counts as 0       *)
(***************************************************************************)
AvailableOf(av, r) == IF r < Len(av) THEN av[r + 1] ELSE 0

EntryOf(tbl, t, r) ==
    IF t < Len(tbl) /\ r < Len(tbl[t + 1]) THEN tbl[t + 1][r + 1] ELSE 0

\* the resource ids some table has an entry for
ResourceIds == 0 .. (Max(Len(mutex_list), Len(semaphore_list)) - 1)

\* task t is suspended inside mutex.lock() of blocking mutex m
BlockedOn(t, m) == pc[t] = At("mutex_blocked", m)

\* a and b each hold one of two blocking mutexes and each is suspended in
\* sys_mutex_lock of the mutex the other holds
CrossWait(a, b, m1, m2) ==
    /\ a # b /\ m1 # m2
    /\ mutex_list[m1 + 1].owner = a /\ mutex_list[m2 + 1].owner = b
    /\ BlockedOn(a, m2) /\ BlockedOn(b, m1)

(***************************************************************************)
(* C1  Deadlock soundness.  Detection is enabled, the process has two      *)
(* blocking mutexes and nothing else, task a holds m1, task b holds m2 and *)
(* b is already suspended in its request for m1: the request of a for m2   *)
(* returns -0xDEAD and does not suspend a.                                 *)
(***************************************************************************)
C1_SecondRequestRefused ==
    [][\A a \in Tasks, b \in Tasks, m1 \in MutexIds, m2 \in MutexIds :
          ( /\ a # b /\ m1 # m2
            /\ Len(mutex_list) = 2 /\ semaphore_list = <<>>
            /\ mutex_list[m1 + 1].blocking /\ mutex_list[m2 + 1].blocking
            /\ mutex_list[m1 + 1].owner = a /\ mutex_list[m2 + 1].owner = b
            /\ BlockedOn(b, m1)
            /\ \A t \in Tasks, r \in ResourceIds : EntryOf(need, t, r) = 0
            /\ sys_mutex_lock(a, m2) )
          => (ret' = Ret(DEAD) /\ pc'[a] = InUser)]_vars

(***************************************************************************)
(* C2  With detection enabled from the start, no set of tasks is ever      *)
(* suspended in a circular wait: no non-empty set of tasks each of which   *)
(* is suspended in mutex.lock() of a mutex owned by another task of the    *)
(* set.                                                                    *)
(***************************************************************************)
CircularWait(S) ==
    /\ S # {}
    /\ \A t \in S : \E m \in MutexIds :
          BlockedOn(t, m) /\ mutex_list[m + 1].owner \in S \ {t}

C2_NoCircularWait == \A S \in SUBSET Tasks : ~CircularWait(S)

(***************************************************************************)
(* Serialized runs: detection enabled from the start, SerialTasks threads, *)
(* two resources of one kind, every acquisition issued while the primitive *)
(* has a free unit and every release issued by a task that holds a unit.   *)
(***************************************************************************)
InitSerial ==
    /\ mutex_list = <<>>
    /\ semaphore_list = <<>>
    /\ deadlock_detection = TRUE
    /\ available = <<>>
    /\ allocation = <<>>
    /\ need = <<>>
    /\ pc = [t \in 0 .. (SerialTasks - 1) |-> InUser]
    /\ ret = Ret(0)
    /\ InitNotSync

serial_mutex_create(t, blocking) ==
    /\ semaphore_list = <<>>
    /\ Len(mutex_list) < SerialResources
    /\ sys_mutex_create(t, blocking)

serial_semaphore_create(t, res_count) ==
    /\ mutex_list = <<>>
    /\ Len(semaphore_list) < SerialResources
    /\ sys_semaphore_create(t, res_count)

serial_mutex_lock(t, m) ==
    /\ m \in MutexIds
    /\ ~mutex_list[m + 1].locked
    /\ sys_mutex_lock(t, m)

serial_mutex_unlock(t, m) == sys_mutex_unlock(t, m)

serial_semaphore_down(t, s) ==
    /\ s \in SemIds
    /\ semaphore_list[s + 1].count >= 1
    /\ sys_semaphore_down(t, s)

serial_semaphore_up(t, s) ==
    /\ EntryOf(allocation, t, s) >= 1
    /\ sys_semaphore_up(t, s)

NextSerial ==
    \/ \E t \in Tasks, blocking \in BOOLEAN : serial_mutex_create(t, blocking)
    \/ \E t \in Tasks, res_count \in 1 .. (MaxCount + 1) : serial_semaphore_create(t, res_count)
    \/ \E t \in Tasks, m \in MutexIds : serial_mutex_lock(t, m)
    \/ \E t \in Tasks, m \in MutexIds : serial_mutex_unlock(t, m)
    \/ \E t \in Tasks, s \in SemIds : serial_semaphore_down(t, s)
    \/ \E t \in Tasks, s \in SemIds : serial_semaphore_up(t, s)

SpecSerial == InitSerial /\ [][NextSerial]_vars

(***************************************************************************)
(* C3  Deadlock completeness.  In the serialized runs of three tasks on    *)
(* two resources no sys_mutex_lock and no sys_semaphore_down is refused:   *)
(* no step returns -0xDEAD, and none suspends its caller.                  *)
(***************************************************************************)
C3_NoFalseRefusal ==
    /\ ret # Ret(DEAD)
    /\ \A t \in Tasks : pc[t] = InUser

\* a task that holds a unit of both resources while another task holds a unit too
C3_Witness ==
    \E t \in Tasks, u \in Tasks :
        /\ t # u
        /\ EntryOf(allocation, t, 0) >= 1 /\ EntryOf(allocation, t, 1) >= 1
        /\ \E r \in 0 .. 1 : EntryOf(allocation, u, r) >= 1
        /\ ret = Ret(0)

(***************************************************************************)
(* C4  Toggle effect.  A sys_mutex_lock or sys_semaphore_down issued while *)
(* the detection flag is off never returns -0xDEAD and hands the request   *)
(* to the primitive; and two tasks that have reached the circular wait on  *)
(* two mutexes stay in it at every later step.                             *)
(***************************************************************************)
C4_ToggleOff ==
    [][/\ \A t \in Tasks, m \in MutexIds :
             (~deadlock_detection /\ sys_mutex_lock(t, m))
             => /\ ret' # Ret(DEAD)
                /\ mutex_list'[m + 1] = Mutex_lock(mutex_list[m + 1], t)
       /\ \A t \in Tasks, s \in SemIds :
             (~deadlock_detection /\ sys_semaphore_down(t, s))
             => /\ ret' # Ret(DEAD)
                /\ semaphore_list'[s + 1] = Semaphore_down(semaphore_list[s + 1], t)
       /\ \A a \in Tasks, b \in Tasks, m1 \in MutexIds, m2 \in MutexIds :
             CrossWait(a, b, m1, m2) => CrossWait(a, b, m1, m2)']_vars

\* the circular wait of two tasks on two mutexes, reached with the flag off
C4_Witness ==
    /\ ~deadlock_detection
    /\ \E a \in Tasks, b \in Tasks, m1 \in MutexIds, m2 \in MutexIds : CrossWait(a, b, m1, m2)

(***************************************************************************)
(* C5  A refused request of task t for resource r (the call returns        *)
(* -0xDEAD) leaves its caller running, leaves available and allocation     *)
(* unchanged and leaves need[t][r] at the value it had before the call.    *)
(***************************************************************************)
C5_RefusalRevertsNeed ==
    [][\A t \in Tasks, r \in ResourceIds :
          ((sys_mutex_lock(t, r) \/ sys_semaphore_down(t, r)) /\ ret' = Ret(DEAD))
          => /\ pc'[t] = InUser
             /\ available' = available
             /\ allocation' = allocation
             /\ EntryOf(need', t, r) = EntryOf(need, t, r)]_vars

(***************************************************************************)
(* C6  A request of task t for resource r that the check finds safe.       *)
(* Granted(t, r): the step has applied available[r] -= 1,                  *)
(* allocation[t][r] += 1 and has taken the request out of need[t][r].      *)
(* Pending(t, r): the step has applied none of them, the request is still  *)
(* in need[t][r].                                                          *)
(***************************************************************************)
Granted(t, r, need_before) ==
    /\ AvailableOf(available', r) = AvailableOf(available, r) - 1
    /\ EntryOf(allocation', t, r) = EntryOf(allocation, t, r) + 1
    /\ EntryOf(need', t, r) = need_before - 1

Pending(t, r) ==
    /\ available' = available
    /\ allocation' = allocation
    /\ EntryOf(need', t, r) = EntryOf(need, t, r) + 1

RECURSIVE SumAllocation(_, _)
SumAllocation(n, r) ==
    IF n = 0 THEN 0 ELSE EntryOf(allocation, n - 1, r) + SumAllocation(n - 1, r)

UnitsAre(r, total) ==
    /\ AvailableOf(available, r) >= 0
    /\ \A t \in Tasks : EntryOf(allocation, t, r) >= 0
    /\ AvailableOf(available, r) + SumAllocation(Cardinality(Tasks), r) = total

C7_Conservation ==
    /\ \A m \in MutexIds : UnitsAre(m, 1)
    /\ \A s \in SemIds : UnitsAre(s, semaphore_list[s + 1].res_count)

(***************************************************************************)
(* C8  need[t][r] is never negative, and is 0 for every resource r         *)
(* whenever task t is not inside sys_mutex_lock / sys_semaphore_down.      *)
(***************************************************************************)
C8_NeedZeroOutsideRequest ==
    \A t \in Tasks, r \in ResourceIds :
        /\ EntryOf(need, t, r) >= 0
        /\ pc[t] = InUser => EntryOf(need, t, r) = 0

(***************************************************************************)
(* C9  Release path.  sys_mutex_unlock(r) and sys_semaphore_up(r) by task  *)
(* t return 0, add 1 to available[r], subtract 1 from allocation[t][r]     *)
(* (wrapping), whatever the detection flag, and change no other entry of   *)
(* available, allocation or need.                                          *)
(***************************************************************************)
C9_ReleasePath ==
    [][\A t \in Tasks, r \in ResourceIds :
          (sys_mutex_unlock(t, r) \/ sys_semaphore_up(t, r))
          => /\ ret' = Ret(0)
             /\ AvailableOf(available', r) = AvailableOf(available, r) + 1
             /\ EntryOf(allocation', t, r) = EntryOf(allocation, t, r) - 1
             /\ \A r2 \in ResourceIds \ {r} :
                   AvailableOf(available', r2) = AvailableOf(available, r2)
             /\ \A t2 \in Tasks, r2 \in ResourceIds :
                   /\ <<t2, r2>> # <<t, r>>
                        => EntryOf(allocation', t2, r2) = EntryOf(allocation, t2, r2)
                   /\ EntryOf(need', t2, r2) = EntryOf(need, t2, r2)
             /\ deadlock_detection' = deadlock_detection]_vars

\* with the flag off, the last mutex has been locked and unlocked by a task (its
\* entry is back at 0) and a semaphore has been upped by a task holding no unit
C9_Witness ==
    /\ ret = Ret(0)
    /\ ~deadlock_detection
    /\ \E t \in Tasks, s \in SemIds : EntryOf(allocation, t, s) = -1
    /\ \E t \in Tasks, m \in MutexIds \ SemIds :
          /\ ~mutex_list[m + 1].locked
          /\ t < Len(allocation) /\ Len(allocation[t + 1]) = m + 1
          /\ allocation[t + 1][m + 1] = 0

(***************************************************************************)
(* C10  sys_enable_deadlock_detect(0) clears the flag and returns 0,       *)
(* sys_enable_deadlock_detect(1) sets it and returns 0, any other argument *)
(* returns -1 and changes neither the flag nor a table.                    *)
(***************************************************************************)
C10_EnableDeadlockDetect ==
    [][\A t \in Tasks, enabled \in 0 .. MaxArg :
          sys_enable_deadlock_detect(t, enabled)
          => /\ enabled = 0 => (~deadlock_detection' /\ ret' = Ret(0))
             /\ enabled = 1 => (deadlock_detection' /\ ret' = Ret(0))
             /\ enabled \notin {0, 1}
                  => /\ ret' = Ret(-1)
                     /\ deadlock_detection' = deadlock_detection
                     /\ UNCHANGED <<available, allocation, need>>
             /\ UNCHANGED <<mutex_list, semaphore_list>>]_vars

\* the flag is on (it starts off) and an invalid argument has just been refused
C10_Witness ==
    /\ deadlock_detection
    /\ ret = Ret(-1)

(***************************************************************************)
(* Condition variables (os/src/sync/condvar.rs, os/src/syscall/sync.rs)    *)
(***************************************************************************)
\* most primitives of one kind the process creates in the runs of create calls
MaxCreate == 3
\* most condition variables the process creates in the runs with waits
MaxCondvar == 1

\* Condvar::new
Condvar_new == [wait_queue |-> <<>>]

\* wait(mutex), first half: enqueue the caller (it then unlocks the mutex and parks)
Condvar_wait(condvar, tid) == [condvar EXCEPT !.wait_queue = Append(@, tid)]

\* signal(): take the head of the wait queue, if there is one
Condvar_signal(condvar) ==
    IF condvar.wait_queue # <<>> THEN [condvar EXCEPT !.wait_queue = Tail(@)] ELSE condvar

CondvarIds == 0 .. (Len(condvar_list) - 1)

sys_condvar_create(t) ==
    /\ pc[t].at = "user"
    /\ LET id == new_id(condvar_list)
       IN  /\ condvar_list' = put(condvar_list, id, Condvar_new)
           /\ ret' = Ret(id)
    /\ UNCHANGED <<sync_vars, pc, sched_vars, proc_vars, timer_vars>>

sys_condvar_signal(t, condvar_id) ==
    /\ pc[t].at = "user"
    /\ condvar_id \in CondvarIds
    /\ LET condvar == condvar_list[condvar_id + 1]
       IN  /\ condvar_list' = [condvar_list EXCEPT ![condvar_id + 1] = Condvar_signal(condvar)]
           /\ pc' = IF condvar.wait_queue # <<>>
                    THEN [pc EXCEPT ![Head(condvar.wait_queue)] = At("condvar_woken", @.id)]
                    ELSE pc
    /\ ret' = Ret(0)
    /\ UNCHANGED <<sync_vars, sched_vars, proc_vars, timer_vars>>

\* wait does not check the owner: the callers wait only with a mutex they hold.
\* The step runs up to the suspension inside condvar.wait: the caller is queued
\* on the condition variable and the mutex is unlocked, neither through the
\* accounting tables
sys_condvar_wait(t, condvar_id, mutex_id) ==
    /\ pc[t].at = "user"
    /\ condvar_id \in CondvarIds
    /\ mutex_id \in MutexIds
    /\ mutex_list[mutex_id + 1].owner = t
    /\ condvar_list' = [condvar_list EXCEPT ![condvar_id + 1] = Condvar_wait(@, t)]
    /\ LET mutex == mutex_list[mutex_id + 1]
       IN  /\ mutex_list' = [mutex_list EXCEPT ![mutex_id + 1] = Mutex_unlock(mutex)]
           /\ pc' = [k \in DOMAIN pc |->
                        IF k = t THEN At("condvar_wait", mutex_id)
                        ELSE IF mutex.wait_queue # <<>> /\ k = Head(mutex.wait_queue)
                             THEN At("mutex_woken", mutex_id)
                             ELSE pc[k]]
    /\ ret' = NoRet
    /\ UNCHANGED <<semaphore_list, deadlock_detection, tables, sched_vars, proc_vars, timer_vars>>

\* a signalled task goes on in condvar.wait with mutex.lock(): it returns 0 from
\* the syscall with the mutex, or is suspended in mutex.lock()
condvar_wait_resume(t) ==
    /\ pc[t].at = "condvar_woken"
    /\ LET mutex_id == pc[t].id
           mutex == mutex_list[mutex_id + 1]
       IN  /\ mutex_list' = [mutex_list EXCEPT ![mutex_id + 1] = Mutex_lock(mutex, t)]
           /\ IF mutex.locked
              THEN /\ pc' = [pc EXCEPT ![t] =
                               At(IF mutex.blocking THEN "mutex_blocked" ELSE "mutex_spin",
                                  mutex_id)]
                   /\ ret' = NoRet
              ELSE /\ pc' = [pc EXCEPT ![t] = InUser]
                   /\ ret' = Ret(0)
    /\ UNCHANGED <<semaphore_list, deadlock_detection, tables, condvar_list,
                   sched_vars, proc_vars, timer_vars>>

(***************************************************************************)
(* Runs of create calls                                                    *)
(***************************************************************************)
NextCreate ==
    \/ \E t \in Tasks, blocking \in BOOLEAN :
          Len(mutex_list) < MaxCreate /\ sys_mutex_create(t, blocking)
    \/ \E t \in Tasks, res_count \in 0 .. MaxCount :
          Len(semaphore_list) < MaxCreate /\ sys_semaphore_create(t, res_count)
    \/ \E t \in Tasks : Len(condvar_list) < MaxCreate /\ sys_condvar_create(t)

SpecCreate == Init /\ [][NextCreate]_vars

\* the live handles of a slot table: the ids of its occupied slots
LiveIds(list) == {id \in 0 .. (Len(list) - 1) : ~is_none(list[id + 1])}

\* the step put a new primitive in a slot that was empty or did not exist, kept
\* every live handle, and returned the slot's id
CreatedIn(list_before, list_after) ==
    \E id \in 0 .. Len(list_before) :
        /\ ret' = Ret(id)
        /\ id >= 0
        /\ id \notin LiveIds(list_before)
        /\ LiveIds(list_after) = LiveIds(list_before) \union {id}
        /\ \A k \in LiveIds(list_before) : list_after[k + 1] = list_before[k + 1]

(***************************************************************************)
(* C11  Every create call returns a handle >= 0 that is none of the live   *)
(* handles of its kind: it is the id of a slot that was empty or has just  *)
(* been appended, and the handles that were live stay as they were.        *)
(***************************************************************************)
C11_FreshHandle ==
    [][\A t \in Tasks :
          /\ (\E blocking \in BOOLEAN : sys_mutex_create(t, blocking))
                => CreatedIn(mutex_list, mutex_list')
          /\ (\E res_count \in 0 .. MaxCount : sys_semaphore_create(t, res_count))
                => CreatedIn(semaphore_list, semaphore_list')
          /\ sys_condvar_create(t) => CreatedIn(condvar_list, condvar_list')]_vars

\* each kind has two live handles and the last create returned the second one
C11_Witness ==
    /\ Len(mutex_list) >= 2 /\ Len(semaphore_list) >= 2 /\ Len(condvar_list) >= 2
    /\ ret = Ret(1)

(***************************************************************************)
(* The stride scheduler (os/src/task/manager.rs)                           *)
(*                                                                         *)
(* tcb.stride is a usize.  Its width is scaled down to StrideBits bits so  *)
(* that a counter wraps within a run that can be explored; BIG_STRIDE      *)
(* stays below half the range, as it does for the 64 bits of the kernel.   *)
(* += wraps (the kernel is built without overflow checks).                 *)
(*                                                                         *)
(* The ready queue is a BinaryHeap<Reverse<ComparableTCB>>: pop() returns  *)
(* a task that no task of the heap precedes in the order of ComparableTCB, *)
(* which compares strides by their signed difference.                      *)
(***************************************************************************)
BIG_STRIDE == 65534

\* bits of the stride counter
StrideBits == 18
\* tasks the scheduler manages in the runs of add and fetch calls
SchedTasks == 3
\* largest priority a task is created with
MaxPriority == 3
\* most fetch() calls that return a task in the runs of add and fetch calls
MaxFetch == 6
\* largest magnitude of the argument given to sys_set_priority
MaxPrio == 2

StrideRange == 2 ^ StrideBits

\* usize += with wrap-around
wrapping_add(a, b) == (a + b) % StrideRange

\* ComparableTCB::cmp is Less: the difference a - b, read as signed, is negative
stride_less(a, b) == ((a - b) % StrideRange) >= StrideRange \div 2

\* BinaryHeap::pop on Reverse<ComparableTCB>: a task no task of the heap precedes
\* (any task of the heap if the comparison orders no such task)
pop(queue) ==
    LET least == {t \in queue : \A u \in queue : ~stride_less(stride[u], stride[t])}
    IN  IF least = {} THEN queue ELSE least

SchedIds == DOMAIN stride

\* let pass = BIG_STRIDE / tcb.priority
pass_of(prio) == BIG_STRIDE \div prio

\* the tasks exist with stride 0 and a priority >= 1; none is in the ready queue
InitSched ==
    /\ mutex_list = <<>>
    /\ semaphore_list = <<>>
    /\ deadlock_detection = FALSE
    /\ available = <<>>
    /\ allocation = <<>>
    /\ need = <<>>
    /\ pc = [t \in 0 .. (SchedTasks - 1) |-> InUser]
    /\ ret = NoRet
    /\ condvar_list = <<>>
    /\ ready_queue = {}
    /\ stride = [t \in 0 .. (SchedTasks - 1) |-> 0]
    /\ priority \in [0 .. (SchedTasks - 1) -> 1 .. MaxPriority]
    /\ fetched = <<>>
    /\ selections = [t \in 0 .. (SchedTasks - 1) |-> 0]
    /\ panicked = FALSE
    /\ children = <<>>
    /\ exit_code_out = <<>>
    /\ timers = {}
    /\ time_ms = 0

\* TaskManager::add: the callers add a task that is not in the ready queue
add(task) ==
    /\ ~panicked
    /\ task \notin ready_queue
    /\ ready_queue' = ready_queue \union {task}
    /\ UNCHANGED <<sync_vars, pc, ret, condvar_list, stride, priority, fetched, selections,
                   panicked, proc_vars, timer_vars>>

\* fetch that leaves the task it returns in the ready queue (peek for pop)
fetch_peek ==
    /\ ~panicked
    /\ IF ready_queue = {}
       THEN /\ fetched' = <<>>
            /\ UNCHANGED <<ready_queue, stride, selections, panicked>>
       ELSE \E task \in pop(ready_queue) :
            /\ ready_queue' = ready_queue
            /\ stride' = [stride EXCEPT ![task] = wrapping_add(@, pass_of(priority[task]))]
            /\ fetched' = <<task>>
            /\ selections' = [selections EXCEPT ![task] = @ + 1]
            /\ UNCHANGED panicked
    /\ UNCHANGED <<sync_vars, pc, ret, condvar_list, priority, proc_vars, timer_vars>>

\* fetch that adds BIG_STRIDE whatever the priority
fetch_fixed_pass ==
    /\ ~panicked
    /\ IF ready_queue = {}
       THEN /\ fetched' = <<>>
            /\ UNCHANGED <<ready_queue, stride, selections, panicked>>
       ELSE \E task \in pop(ready_queue) :
            /\ ready_queue' = ready_queue \ {task}
            /\ stride' = [stride EXCEPT ![task] = wrapping_add(@, BIG_STRIDE)]
            /\ fetched' = <<task>>
            /\ selections' = [selections EXCEPT ![task] = @ + 1]
            /\ UNCHANGED panicked
    /\ UNCHANGED <<sync_vars, pc, ret, condvar_list, priority, proc_vars, timer_vars>>

\* fetch that adds the pass to the stride of every task
fetch_all_strides ==
    /\ ~panicked
    /\ IF ready_queue = {}
       THEN /\ fetched' = <<>>
            /\ UNCHANGED <<ready_queue, stride, selections, panicked>>
       ELSE \E task \in pop(ready_queue) :
            /\ ready_queue' = ready_queue \ {task}
            /\ stride' = [t \in DOMAIN stride |->
                             wrapping_add(stride[t], pass_of(priority[task]))]
            /\ fetched' = <<task>>
            /\ selections' = [selections EXCEPT ![task] = @ + 1]
            /\ UNCHANGED panicked
    /\ UNCHANGED <<sync_vars, pc, ret, condvar_list, priority, proc_vars, timer_vars>>

\* fetch whose addition stops at the largest value instead of wrapping
fetch_saturating ==
    /\ ~panicked
    /\ IF ready_queue = {}
       THEN /\ fetched' = <<>>
            /\ UNCHANGED <<ready_queue, stride, selections, panicked>>
       ELSE \E task \in pop(ready_queue) :
            /\ ready_queue' = ready_queue \ {task}
            /\ stride' = [stride EXCEPT ![task] =
                             IF @ + pass_of(priority[task]) >= StrideRange
                             THEN StrideRange - 1
                             ELSE @ + pass_of(priority[task])]
            /\ fetched' = <<task>>
            /\ selections' = [selections EXCEPT ![task] = @ + 1]
            /\ UNCHANGED panicked
    /\ UNCHANGED <<sync_vars, pc, ret, condvar_list, priority, proc_vars, timer_vars>>

\* TaskManager::fetch: None from an empty heap; else pop a task, add its pass to
\* its stride and return it.  BIG_STRIDE / 0 panics.
fetch ==
    /\ ~panicked
    /\ IF ready_queue = {}
       THEN /\ fetched' = <<>>
            /\ UNCHANGED <<ready_queue, stride, selections, panicked>>
       ELSE \E task \in pop(ready_queue) :
            /\ ready_queue' = ready_queue \ {task}
            /\ IF priority[task] = 0
               THEN /\ panicked' = TRUE
                    /\ UNCHANGED <<stride, fetched, selections>>
               ELSE /\ stride' = [stride EXCEPT ![task] =
                                     wrapping_add(@, pass_of(priority[task]))]
                    /\ fetched' = <<task>>
                    /\ selections' = [selections EXCEPT ![task] = @ + 1]
                    /\ UNCHANGED panicked
    /\ UNCHANGED <<sync_vars, pc, ret, condvar_list, priority, proc_vars, timer_vars>>

\* sys_set_priority that stores whatever it is given
sys_set_priority_unchecked(t, prio) ==
    /\ ~panicked
    /\ fetched = <<t>> /\ t \notin ready_queue
    /\ priority' = [priority EXCEPT ![t] = prio]
    /\ ret' = Ret(prio)
    /\ UNCHANGED <<sync_vars, pc, condvar_list, ready_queue, stride, fetched, selections,
                   panicked, proc_vars, timer_vars>>

\* sys_set_priority by the running task: returns -1, whatever the argument
sys_set_priority(t, prio) ==
    /\ ~panicked
    /\ fetched = <<t>> /\ t \notin ready_queue
    /\ ret' = Ret(-1)
    /\ UNCHANGED <<sync_vars, pc, condvar_list, sched_vars, proc_vars, timer_vars>>

\* the stride of task t had the counter unbounded width
TotalStride(t) == selections[t] * pass_of(priority[t])

\* the strides of the tasks spread over less than half the range of the counter
InWindow ==
    \A t \in SchedIds, u \in SchedIds :
        TotalStride(t) - TotalStride(u) < StrideRange \div 2

\* how many times fetch() has returned a task
RECURSIVE SumTo(_, _)
SumTo(f, n) == IF n = 0 THEN 0 ELSE f[n - 1] + SumTo(f, n - 1)

Fetches == SumTo(selections, Cardinality(SchedIds))

NextSched ==
    \/ \E task \in SchedIds : add(task)
    \/ Fetches < MaxFetch /\ fetch /\ InWindow'
    \/ \E t \in SchedIds, prio \in -MaxPrio .. MaxPrio : sys_set_priority(t, prio)

SpecSched == InitSched /\ [][NextSched]_vars

C14_NoZeroPriority ==
    [][/\ \A t \in SchedIds : priority[t] >= 1 /\ priority'[t] >= 1
       /\ ~panicked'
       /\ \A t \in SchedIds :
             sys_set_priority(t, 0) => (ret'[1] < 0 /\ priority' = priority)]_vars

\* a task that has been fetched twice has just had a sys_set_priority refused
C14_Witness ==
    /\ ret = Ret(-1)
    /\ ~panicked
    /\ \E t \in SchedIds : fetched = <<t>> /\ selections[t] >= 2 /\ priority[t] >= 1

(***************************************************************************)
(* C19  fetch() adds BIG_STRIDE / priority (integer division, BIG_STRIDE = *)
(* 0xFFFE = 65534) to the stride of the task it returns and changes no     *)
(* other stride and no priority; add() changes no stride.                  *)
(***************************************************************************)
C19_FetchFrame ==
    [][/\ fetch =>
             /\ priority' = priority
             /\ IF ready_queue = {} THEN stride' = stride
                ELSE \E task \in ready_queue :
                     /\ fetched' = <<task>>
                     /\ stride'[task] = (stride[task] + (65534 \div priority[task])) % StrideRange
                     /\ \A u \in SchedIds \ {task} : stride'[u] = stride[u]
       /\ \A task \in SchedIds : add(task) => (stride' = stride /\ priority' = priority)]_vars

\* a task of priority 3 has been fetched twice while another task has a stride
\* of its own, and is back in the ready queue
C19_Witness ==
    \E task \in SchedIds, u \in SchedIds :
        /\ task # u
        /\ priority[task] = 3 /\ stride[task] = 2 * 21844
        /\ task \in ready_queue
        /\ stride[u] > 0 /\ priority[u] # 3

(***************************************************************************)
(* Two (or more) tasks that never block: every task but the running one is *)
(* in the ready queue, the running task is re-added before the next fetch. *)
(***************************************************************************)
\* tasks of the runs without blocking
StrideTasks == 2
\* most fetch() calls of a run without blocking
MaxRounds == 40

InitStride ==
    /\ mutex_list = <<>>
    /\ semaphore_list = <<>>
    /\ deadlock_detection = FALSE
    /\ available = <<>>
    /\ allocation = <<>>
    /\ need = <<>>
    /\ pc = [t \in 0 .. (StrideTasks - 1) |-> InUser]
    /\ ret = NoRet
    /\ condvar_list = <<>>
    /\ ready_queue = 0 .. (StrideTasks - 1)
    /\ stride = [t \in 0 .. (StrideTasks - 1) |-> 0]
    /\ priority \in [0 .. (StrideTasks - 1) -> 1 .. MaxPriority]
    /\ fetched = <<>>
    /\ selections = [t \in 0 .. (StrideTasks - 1) |-> 0]
    /\ panicked = FALSE
    /\ children = <<>>
    /\ exit_code_out = <<>>
    /\ timers = {}
    /\ time_ms = 0

NextStride ==
    \/ \E task \in SchedIds : fetched = <<task>> /\ add(task)
    \/ ready_queue = SchedIds /\ Fetches < MaxRounds /\ fetch

SpecStride == InitStride /\ [][NextStride]_vars

Min(a, b) == IF a <= b THEN a ELSE b

Abs(a) == IF a >= 0 THEN a ELSE -a

\* the difference of two stride counters read as a signed number
signed_difference(a, b) ==
    ((a - b + StrideRange \div 2) % StrideRange) - StrideRange \div 2

MaxLagFetch == 12

NextLag ==
    \/ \E task \in SchedIds : add(task)
    \/ Fetches < MaxLagFetch /\ fetch

SpecLag == InitStride /\ [][NextLag]_vars

\* the strides of the ready tasks, had the counters unbounded width, lie within
\* less than half the range of the counter of one another
ReadyInWindow ==
    \A a \in ready_queue, b \in ready_queue :
        TotalStride(a) - TotalStride(b) < StrideRange \div 2

\* what fetch() does to the order: the queue orders the ready tasks as their
\* unbounded strides are ordered, and the task returned is the least advanced
KeepsOrder ==
    /\ ~panicked'
    /\ \A a \in ready_queue, b \in ready_queue :
          stride_less(stride[a], stride[b]) <=> TotalStride(a) < TotalStride(b)
    /\ ready_queue # {} =>
          \E task \in ready_queue :
              /\ fetched' = <<task>>
              /\ \A u \in ready_queue : TotalStride(task) <= TotalStride(u)
              /\ stride'[task] = (TotalStride(task) + pass_of(priority[task])) % StrideRange

ReturnsAtOnce(t) == ret' = Ret(0) /\ pc'[t] = InUser

\* the down suspends its caller in sem.down()
Suspends(t, s) == ret' = NoRet /\ pc'[t] = At("sem_blocked", s)

\* a task suspended in sem.down() leaves it only in a step that is a
\* sys_semaphore_up of that semaphore by another task, and then returns 0
ResumesByUp ==
    /\ \A t \in Tasks :
          (pc[t].at = "sem_blocked" /\ pc'[t] # pc[t])
          => /\ pc'[t] = At("sem_woken", pc[t].id)
             /\ \E u \in Tasks \ {t} : sys_semaphore_up(u, pc[t].id)
    /\ \A t \in Tasks : semaphore_down_return(t) => ReturnsAtOnce(t)

NextCondvar ==
    \/ \E t \in Tasks, blocking \in BOOLEAN :
          Len(mutex_list) < MaxMutex /\ sys_mutex_create(t, blocking) /\ Bounded
    \/ \E t \in Tasks : Len(condvar_list) < MaxCondvar /\ sys_condvar_create(t)
    \/ \E t \in Tasks, m \in MutexIds : sys_mutex_lock(t, m) /\ Bounded
    \/ \E t \in Tasks : mutex_lock_return(t)
    \/ \E t \in Tasks : mutex_spin_retry(t)
    \/ \E t \in Tasks, m \in MutexIds : sys_mutex_unlock(t, m) /\ Bounded
    \/ \E t \in Tasks, c \in CondvarIds, m \in MutexIds : sys_condvar_wait(t, c, m)
    \/ \E t \in Tasks, c \in CondvarIds : sys_condvar_signal(t, c)
    \/ \E t \in Tasks : condvar_wait_resume(t)
    \/ \E t \in Tasks, enabled \in 0 .. 1 : sys_enable_deadlock_detect(t, enabled)

SpecCondvar == Init /\ [][NextCondvar]_vars

\* task t is parked inside sys_condvar_wait(c, m)
ParkedIn(t, c, m) ==
    /\ pc[t] = At("condvar_wait", m)
    /\ \E k \in 1 .. Len(condvar_list[c + 1].wait_queue) : condvar_list[c + 1].wait_queue[k] = t

(***************************************************************************)
(* C16  Condvar ordering (the part that is a safety property).             *)
(* sys_condvar_wait(C, M) by task A parks A on C with M released; while A  *)
(* is parked and M is free, sys_mutex_lock(M) by another task B acquires M *)
(* (returns 0 with B the owner); and whenever A, signalled, leaves the     *)
(* wait with the result 0, A is the owner of M.                            *)
(***************************************************************************)
C16_CondvarOrdering ==
    [][/\ \A a \in Tasks, c \in CondvarIds, m \in MutexIds :
             sys_condvar_wait(a, c, m)
             => /\ ParkedIn(a, c, m)'
                /\ mutex_list'[m + 1].owner # a
                /\ mutex_list[m + 1].wait_queue = <<>> => ~mutex_list'[m + 1].locked
       /\ \A a \in Tasks, b \in Tasks, c \in CondvarIds, m \in MutexIds :
             (ParkedIn(a, c, m) /\ ~mutex_list[m + 1].locked /\ sys_mutex_lock(b, m))
             => /\ ret' = Ret(0)
                /\ mutex_list'[m + 1].owner = b
                /\ pc'[b] = InUser
       /\ \A a \in Tasks :
             condvar_wait_resume(a)
             => \/ ret' = Ret(0) /\ pc'[a] = InUser /\ mutex_list'[pc[a].id + 1].owner = a
                \/ ret' = NoRet /\ pc'[a].at \in {"mutex_blocked", "mutex_spin"}
                                /\ mutex_list[pc[a].id + 1].owner # a
       /\ \A a \in Tasks :
             (mutex_lock_return(a) \/ mutex_spin_retry(a))
             => ret' = Ret(0) /\ mutex_list'[pc[a].id + 1].owner = a]_vars

(***************************************************************************)
(* Processes: sys_fork, sys_yield, sys_exit, sys_waitpid                   *)
(* (os/src/syscall/process.rs), sys_sleep (os/src/syscall/sync.rs) and the *)
(* timer.  Process 0 is the parent; children is its inner.children, a      *)
(* child being its pid, whether it is a zombie, and its exit code.  The    *)
(* running slot of the processor is fetched; pc tells a sleeping process   *)
(* from one in user code.                                                  *)
(***************************************************************************)
\* most children the parent has at a time
MaxChildren == 2
\* largest pid
MaxPid == 2
\* largest magnitude of an exit code
MaxExitCode == 1
\* largest ms given to sys_sleep
MaxSleep == 1
\* the clock stops at this time
MaxTime == 2
\* most selections by the scheduler in a run
MaxWaitFetch == 5

\* process t is the current task and is in user code
Running(t) == fetched = <<t>> /\ pc[t] = InUser

\* Arc::strong_count of child pid once it is out of the children list: the
\* binding child, and one for each of the ready queue, the running slot and a
\* timer that holds the process
strong_count(pid) ==
    1 + (IF pid \in ready_queue THEN 1 ELSE 0)
      + (IF fetched = <<pid>> THEN 1 ELSE 0)
      + Cardinality({timer \in timers : timer.task = pid})

\* pid == -1 || pid as usize == p.getpid()
matches_pid(pid, child) == pid = -1 \/ pid = child.pid

\* Vec::remove(idx)
remove(list, idx) == [k \in 1 .. (Len(list) - 1) |-> IF k <= idx THEN list[k] ELSE list[k + 1]]

\* iter().enumerate().find(..): the index of the first zombie child matching pid
find_zombie(pid) ==
    LET found == {idx \in 0 .. (Len(children) - 1) :
                     children[idx + 1].zombie /\ matches_pid(pid, children[idx + 1])}
    IN  IF found = {} THEN NoTask
        ELSE CHOOSE idx \in found : \A other \in found : idx <= other

\* find_zombie that does not look at the pid
find_zombie_any_pid(pid) ==
    LET found == {idx \in 0 .. (Len(children) - 1) : children[idx + 1].zombie}
    IN  IF found = {} THEN NoTask
        ELSE CHOOSE idx \in found : \A other \in found : idx <= other

\* sys_waitpid with find_zombie_any_pid for find_zombie
sys_waitpid_any_zombie(pid) ==
    /\ ~panicked
    /\ IF ~\E k \in 1 .. Len(children) : matches_pid(pid, children[k])
       THEN /\ ret' = Ret(-1)
            /\ UNCHANGED <<children, exit_code_out, panicked>>
       ELSE LET idx == find_zombie_any_pid(pid)
            IN  IF idx = NoTask
                THEN /\ ret' = Ret(-2)
                     /\ UNCHANGED <<children, exit_code_out, panicked>>
                ELSE /\ children' = remove(children, idx)
                     /\ IF strong_count(children[idx + 1].pid) # 1
                        THEN /\ panicked' = TRUE
                             /\ UNCHANGED <<exit_code_out, ret>>
                        ELSE /\ exit_code_out' = <<children[idx + 1].exit_code>>
                             /\ ret' = Ret(children[idx + 1].pid)
                             /\ UNCHANGED panicked
    /\ UNCHANGED <<sync_vars, pc, condvar_list, ready_queue, stride, priority, fetched,
                   selections, timer_vars>>

\* sys_waitpid by the parent; a failed assert_eq! is a kernel panic
sys_waitpid(pid) ==
    /\ ~panicked
    /\ IF ~\E k \in 1 .. Len(children) : matches_pid(pid, children[k])
       THEN /\ ret' = Ret(-1)
            /\ UNCHANGED <<children, exit_code_out, panicked>>
       ELSE LET idx == find_zombie(pid)
            IN  IF idx = NoTask
                THEN /\ ret' = Ret(-2)
                     /\ UNCHANGED <<children, exit_code_out, panicked>>
                ELSE /\ children' = remove(children, idx)
                     /\ IF strong_count(children[idx + 1].pid) # 1
                        THEN /\ panicked' = TRUE
                             /\ UNCHANGED <<exit_code_out, ret>>
                        ELSE /\ exit_code_out' = <<children[idx + 1].exit_code>>
                             /\ ret' = Ret(children[idx + 1].pid)
                             /\ UNCHANGED panicked
    /\ UNCHANGED <<sync_vars, pc, condvar_list, ready_queue, stride, priority, fetched,
                   selections, timer_vars>>

\* sys_fork by the parent: the child, a new task with an unused pid, joins the
\* children and is added to the ready queue (add_task)
sys_fork(new_pid) ==
    /\ ~panicked
    /\ \A k \in 1 .. Len(children) : children[k].pid # new_pid
    /\ children' = Append(children, [pid |-> new_pid, zombie |-> FALSE, exit_code |-> 0])
    /\ ready_queue' = ready_queue \union {new_pid}
    /\ stride' = [stride EXCEPT ![new_pid] = 0]
    /\ ret' = Ret(new_pid)
    /\ UNCHANGED <<sync_vars, pc, condvar_list, priority, fetched, selections, panicked,
                   exit_code_out, timer_vars>>

\* sys_yield by the current task: suspend_current_and_run_next takes it out of
\* the running slot and adds it to the ready queue
sys_yield(t) ==
    /\ ~panicked
    /\ fetched = <<t>>
    /\ fetched' = <<>>
    /\ ready_queue' = ready_queue \union {t}
    /\ UNCHANGED <<sync_vars, pc, ret, condvar_list, stride, priority, selections, panicked,
                   proc_vars, timer_vars>>

\* sys_exit by the current task, a child: exit_current_and_run_next takes it out
\* of the running slot and makes it a zombie with its exit code
sys_exit(t, exit_code) ==
    /\ ~panicked
    /\ fetched = <<t>>
    /\ \E k \in 1 .. Len(children) : children[k].pid = t /\ ~children[k].zombie
    /\ fetched' = <<>>
    /\ children' = [k \in 1 .. Len(children) |->
                       IF children[k].pid = t
                       THEN [children[k] EXCEPT !.zombie = TRUE, !.exit_code = exit_code]
                       ELSE children[k]]
    /\ UNCHANGED <<sync_vars, pc, ret, condvar_list, ready_queue, stride, priority,
                   selections, panicked, exit_code_out, timer_vars>>

\* sys_sleep that returns at once when ms is 0
sys_sleep_skip_zero(t, ms) ==
    /\ pc[t].at = "user"
    /\ IF ms = 0
       THEN /\ ret' = Ret(0)
            /\ UNCHANGED <<timers, pc, fetched>>
       ELSE /\ timers' = timers \union {[expire_ms |-> time_ms + ms, task |-> t]}
            /\ pc' = [pc EXCEPT ![t] = At("sleeping", NoId)]
            /\ fetched' = IF fetched = <<t>> THEN <<>> ELSE fetched
            /\ ret' = NoRet
    /\ UNCHANGED <<sync_vars, condvar_list, ready_queue, stride, priority, selections,
                   panicked, proc_vars, time_ms>>

\* sys_sleep that registers the timer and goes on running
sys_sleep_no_block(t, ms) ==
    /\ pc[t].at = "user"
    /\ timers' = timers \union {[expire_ms |-> time_ms + ms, task |-> t]}
    /\ ret' = Ret(0)
    /\ UNCHANGED <<sync_vars, pc, condvar_list, sched_vars, proc_vars, time_ms>>

\* sys_sleep up to the suspension: add_timer, then block_current_and_run_next
\* takes the caller out of the running slot
sys_sleep(t, ms) ==
    /\ pc[t].at = "user"
    /\ timers' = timers \union {[expire_ms |-> time_ms + ms, task |-> t]}
    /\ pc' = [pc EXCEPT ![t] = At("sleeping", NoId)]
    /\ fetched' = IF fetched = <<t>> THEN <<>> ELSE fetched
    /\ ret' = NoRet
    /\ UNCHANGED <<sync_vars, condvar_list, ready_queue, stride, priority, selections,
                   panicked, proc_vars, time_ms>>

\* the clock advances by a millisecond
tick ==
    /\ time_ms' = time_ms + 1
    /\ UNCHANGED <<sync_vars, pc, ret, condvar_list, sched_vars, proc_vars, timers>>

\* check_timer: every timer whose deadline has passed is removed and its task
\* is made Ready (wakeup_task adds it to the ready queue)
check_timer ==
    /\ \E timer \in timers : timer.expire_ms <= time_ms
    /\ timers' = {timer \in timers : timer.expire_ms > time_ms}
    /\ pc' = [t \in DOMAIN pc |->
                 IF \E timer \in timers : timer.task = t /\ timer.expire_ms <= time_ms
                 THEN At("sleep_woken", NoId)
                 ELSE pc[t]]
    /\ ready_queue' = ready_queue \union
                         {timer.task : timer \in {x \in timers : x.expire_ms <= time_ms}}
    /\ UNCHANGED <<sync_vars, ret, condvar_list, stride, priority, fetched, selections,
                   panicked, proc_vars, time_ms>>

\* the woken task runs again: block_current_and_run_next returns, sys_sleep returns 0
sleep_return(t) ==
    /\ pc[t].at = "sleep_woken"
    /\ pc' = [pc EXCEPT ![t] = InUser]
    /\ ret' = Ret(0)
    /\ UNCHANGED <<sync_vars, condvar_list, sched_vars, proc_vars, timer_vars>>

\* the parent is running, it has no child, no process is ready or asleep
InitWait ==
    /\ mutex_list = <<>>
    /\ semaphore_list = <<>>
    /\ deadlock_detection = FALSE
    /\ available = <<>>
    /\ allocation = <<>>
    /\ need = <<>>
    /\ pc = [t \in 0 .. MaxPid |-> InUser]
    /\ ret = NoRet
    /\ condvar_list = <<>>
    /\ ready_queue = {}
    /\ stride = [t \in 0 .. MaxPid |-> 0]
    /\ priority = [t \in 0 .. MaxPid |-> 1]
    /\ fetched = <<0>>
    /\ selections = [t \in 0 .. MaxPid |-> 0]
    /\ panicked = FALSE
    /\ children = <<>>
    /\ exit_code_out = <<>>
    /\ timers = {}
    /\ time_ms = 0

\* the syscalls are made by the current task; the idle loop fetches when the
\* running slot is empty
NextWait ==
    \/ \E new_pid \in 1 .. MaxPid :
          Running(0) /\ Len(children) < MaxChildren /\ sys_fork(new_pid)
    \/ \E t \in 0 .. MaxPid : Running(t) /\ sys_yield(t)
    \/ \E t \in 1 .. MaxPid, exit_code \in -MaxExitCode .. MaxExitCode :
          Running(t) /\ sys_exit(t, exit_code)
    \/ \E pid \in -2 .. MaxPid : Running(0) /\ sys_waitpid(pid)
    \/ \E t \in 0 .. MaxPid, ms \in 0 .. MaxSleep : Running(t) /\ sys_sleep(t, ms)
    \/ time_ms < MaxTime /\ tick
    \/ check_timer
    \/ fetched = <<>> /\ ready_queue # {} /\ Fetches < MaxWaitFetch /\ fetch
    \/ \E t \in 0 .. MaxPid : fetched = <<t>> /\ sleep_return(t)

SpecWait == InitWait /\ [][NextWait]_vars

(***************************************************************************)
(* C17  sys_waitpid(pid, ptr) returns -1 and changes nothing when no child *)
(* matches pid (-1 matches every child); returns -2 and changes nothing    *)
(* when a child matches but no matching child is a zombie; otherwise it    *)
(* removes exactly one matching zombie child from the children, writes its *)
(* exit code to ptr and returns its pid.                                   *)
(***************************************************************************)
C17_Waitpid ==
    [][\A pid \in -2 .. MaxPid :
          sys_waitpid(pid)
          => LET matching == {k \in 1 .. Len(children) : pid = -1 \/ children[k].pid = pid}
                 zombies == {k \in matching : children[k].zombie}
             IN  IF matching = {}
                 THEN ret' = Ret(-1) /\ children' = children /\ exit_code_out' = exit_code_out
                 ELSE IF zombies = {}
                 THEN ret' = Ret(-2) /\ children' = children /\ exit_code_out' = exit_code_out
                 ELSE \E k \in zombies :
                      /\ Len(children') = Len(children) - 1
                      /\ \A j \in 1 .. Len(children') :
                            children'[j] = IF j < k THEN children[j] ELSE children[j + 1]
                      /\ exit_code_out' = <<children[k].exit_code>>
                      /\ ret' = Ret(children[k].pid)]_vars

\* a zombie has been reaped by its pid, with a non-zero exit code, while a zombie
\* that was in front of it in the list is still a child
C17_Witness ==
    /\ Len(children) = 1
    /\ children[1].zombie
    /\ ret # NoRet /\ ret[1] >= 1
    /\ children[1].pid # ret[1]
    /\ exit_code_out = <<-1>>
    /\ children[1].exit_code # -1

(***************************************************************************)
(* C18  sys_sleep(ms) by task t registers a timer for t with the deadline  *)
(* now + ms and suspends t, whatever ms is; a sleeping task has its timer  *)
(* registered and leaves the sleep only in a step of the timer callback,   *)
(* taken when its deadline has passed; the call then returns 0.            *)
(***************************************************************************)
C18_Sleep ==
    [][/\ \A t \in Tasks, ms \in 0 .. MaxSleep :
             sys_sleep(t, ms)
             => /\ [expire_ms |-> time_ms + ms, task |-> t] \in timers'
                /\ pc'[t].at = "sleeping"
                /\ fetched' # <<t>>
                /\ ret' = NoRet
       /\ \A t \in Tasks :
             pc[t].at = "sleeping"
             => /\ \E timer \in timers : timer.task = t
                /\ t \notin ready_queue /\ fetched # <<t>>
                /\ pc'[t] # pc[t]
                   => /\ check_timer
                      /\ \E timer \in timers : timer.task = t /\ timer.expire_ms <= time_ms
                      /\ pc'[t].at = "sleep_woken"
                      /\ t \in ready_queue'
       /\ \A t \in Tasks :
             pc[t].at = "sleep_woken" /\ pc'[t] # pc[t]
             => sleep_return(t) /\ ret' = Ret(0) /\ pc'[t] = InUser]_vars

\* a task that called sys_sleep(0) has been woken by the timer while another
\* task is still asleep with a later deadline
C18_Witness ==
    \E t \in Tasks, u \in Tasks :
        /\ pc[t].at = "sleep_woken"
        /\ pc[u].at = "sleeping"
        /\ time_ms = 0
        /\ \E timer \in timers : timer.task = u /\ timer.expire_ms > time_ms

(***************************************************************************)
(* Three tasks on the mutexes of one process                               *)
(***************************************************************************)
\* tasks of the process in the runs on mutexes only
HandoffTasks == 3
\* mutexes of the process in these runs
HandoffMutex == 1

InitHandoff ==
    /\ mutex_list = <<>>
    /\ semaphore_list = <<>>
    /\ deadlock_detection = FALSE
    /\ available = <<>>
    /\ allocation = <<>>
    /\ need = <<>>
    /\ pc = [t \in 0 .. (HandoffTasks - 1) |-> InUser]
    /\ ret = NoRet
    /\ InitNotSync

NextHandoff ==
    \/ \E t \in Tasks, blocking \in BOOLEAN :
          Len(mutex_list) < HandoffMutex /\ sys_mutex_create(t, blocking) /\ Bounded
    \/ \E t \in Tasks, m \in MutexIds : sys_mutex_lock(t, m) /\ Bounded
    \/ \E t \in Tasks : mutex_lock_return(t)
    \/ \E t \in Tasks : mutex_spin_retry(t)
    \/ \E t \in Tasks, m \in MutexIds : sys_mutex_unlock(t, m) /\ Bounded
    \/ \E t \in Tasks, enabled \in 0 .. 1 : sys_enable_deadlock_detect(t, enabled)

SpecHandoff == InitHandoff /\ [][NextHandoff]_vars

\* task t has been woken by an unlock of m and has not yet returned from lock()
WokenFor(t, m) == pc[t] = At("mutex_woken", m)

(***************************************************************************)
(* C21  Hand-off of a blocking mutex.  A task that finds the mutex held    *)
(* joins the tail of its wait queue.  unlock() with a non-empty queue      *)
(* makes the head of the queue Ready and the owner and leaves the mutex    *)
(* locked; from then until that task returns from lock() the mutex stays   *)
(* locked and owned by it, so no other task acquires it.  unlock() with an *)
(* empty queue leaves the mutex unlocked.                                  *)
(***************************************************************************)
C21_HandOff ==
    [][/\ \A t \in Tasks, m \in MutexIds :
             (mutex_list[m + 1].blocking /\ mutex_list[m + 1].locked
                /\ sys_mutex_lock(t, m) /\ ret' # Ret(DEAD))
             => /\ mutex_list'[m + 1].wait_queue = Append(mutex_list[m + 1].wait_queue, t)
                /\ mutex_list'[m + 1].owner = mutex_list[m + 1].owner
                /\ mutex_list'[m + 1].locked
       /\ \A t \in Tasks, m \in MutexIds :
             (mutex_list[m + 1].blocking /\ sys_mutex_unlock(t, m))
             => LET queue == mutex_list[m + 1].wait_queue
                IN  IF queue # <<>>
                    THEN /\ mutex_list'[m + 1].locked
                         /\ mutex_list'[m + 1].owner = Head(queue)
                         /\ mutex_list'[m + 1].wait_queue = Tail(queue)
                         /\ pc'[Head(queue)] = At("mutex_woken", m)
                    ELSE /\ ~mutex_list'[m + 1].locked
                         /\ mutex_list'[m + 1].wait_queue = <<>>
       /\ \A t \in Tasks, m \in MutexIds :
             WokenFor(t, m)
             => /\ mutex_list[m + 1].locked /\ mutex_list[m + 1].owner = t
                /\ mutex_list'[m + 1].locked /\ mutex_list'[m + 1].owner = t
                /\ pc'[t] # pc[t] => (mutex_lock_return(t) /\ ret' = Ret(0))]_vars

\* a blocking mutex has been handed to a woken task that has not returned from
\* lock() yet, while a second task waits in its queue and a third one runs
C21_Witness ==
    \E t \in Tasks, u \in Tasks, v \in Tasks, m \in MutexIds :
        /\ t # u /\ t # v /\ u # v
        /\ mutex_list[m + 1].blocking
        /\ WokenFor(t, m)
        /\ mutex_list[m + 1].owner = t
        /\ mutex_list[m + 1].wait_queue = <<u>>
        /\ pc[v] = InUser

(***************************************************************************)
(* The Banker's simulation as a fixpoint on sets of tasks, for comparison  *)
(* with detect_deadlock.  Entries are read as in the tables: u32 values,   *)
(* an entry that was never allocated counting as 0.                        *)
(***************************************************************************)
\* the tasks that start finished: those with a recorded allocation row of zeros
StartFinished(n, al) ==
    {t \in 0 .. (n - 1) : t < Len(al) /\ \A j \in 1 .. Len(al[t + 1]) : al[t + 1][j] = 0}

\* need of t is at most work, resource by resource
NeedFits(t, work, nd) ==
    \A r \in 0 .. (Len(work) - 1) : u32_le(EntryOf(nd, t, r), work[r + 1])

\* work after the allocation rows of the tasks in the set have been added to it
RECURSIVE WorkPlus(_, _, _)
WorkPlus(work, al, tasks) ==
    IF tasks = {} THEN work
    ELSE LET t == CHOOSE x \in tasks : TRUE
         IN  WorkPlus([j \in 1 .. Len(work) |-> work[j] + EntryOf(al, t, j - 1)],
                      al, tasks \ {t})

\* one round finishes every unfinished task whose need fits; rounds repeat until
\* no such task remains; the value is the set of finished tasks at the end
RECURSIVE Simulate(_, _, _, _, _)
Simulate(n, finished, work, al, nd) ==
    LET fitting == {t \in (0 .. (n - 1)) \ finished : NeedFits(t, work, nd)}
    IN  IF fitting = {} THEN finished
        ELSE Simulate(n, finished \union fitting, WorkPlus(work, al, fitting), al, nd)

\* the simulation leaves some task unfinished
Unsafe(n, av, al, nd) ==
    Simulate(n, StartFinished(n, al), av, al, nd) # 0 .. (n - 1)

(***************************************************************************)
(* C22  With the detection flag enabled, the check made by sys_mutex_lock  *)
(* and sys_semaphore_down refuses the request (the call returns -0xDEAD)   *)
(* exactly when the Banker's simulation over available, allocation and the *)
(* need that includes the request leaves some task unfinished; the check   *)
(* itself changes no table: after a refusal available and allocation are   *)
(* as before the call and need is as the request left it.                  *)
(***************************************************************************)
C22_BankersCheck ==
    [][\A t \in Tasks, r \in ResourceIds :
          (deadlock_detection /\ (sys_mutex_lock(t, r) \/ sys_semaphore_down(t, r)))
          => LET need1 == deadlock_detection_need_alloc(need, t, r)
             IN  /\ (ret' = Ret(DEAD))
                       <=> Unsafe(Cardinality(Tasks), available, allocation, need1)
                 /\ ret' = Ret(DEAD)
                       => /\ available' = available
                          /\ allocation' = allocation
                          /\ need' = need1]_vars

(***************************************************************************)
(* C23  The tables mirror the primitives.  For every blocking mutex m,     *)
(* allocation[t][m] is 1 when task t is the owner of m and 0 otherwise (0  *)
(* for a task that is only queued on m), and available[m] is 1 when m is   *)
(* unlocked and 0 when it is locked, also while a task is parked in        *)
(* sys_condvar_wait with m released; for every semaphore s, available[s]   *)
(* is the number of its free units.                                        *)
(***************************************************************************)
C23_TablesMirror ==
    /\ \A m \in MutexIds :
          mutex_list[m + 1].blocking
          => /\ \A t \in Tasks :
                   EntryOf(allocation, t, m) = IF mutex_list[m + 1].owner = t THEN 1 ELSE 0
             /\ AvailableOf(available, m) = IF mutex_list[m + 1].locked THEN 0 ELSE 1
    /\ \A s \in SemIds :
          AvailableOf(available, s) = Max(semaphore_list[s + 1].count, 0)

(***************************************************************************)
(* C24  Exclusive ownership at reap time.  A zombie child is referenced by *)
(* the children list of its parent only: it is not in the ready queue, not *)
(* in the running slot and no timer holds it; so the assertion of          *)
(* sys_waitpid that the reference count of the child it has removed is 1   *)
(* never fails.                                                            *)
(***************************************************************************)
C24_ReapExclusive ==
    /\ ~panicked
    /\ \A k \in 1 .. Len(children) :
          children[k].zombie
          => /\ children[k].pid \notin ready_queue
             /\ fetched # <<children[k].pid>>
             /\ \A timer \in timers : timer.task # children[k].pid
             /\ strong_count(children[k].pid) = 1

\* a child that slept and was woken by the timer has exited and been reaped,
\* while another child is asleep on a timer
C24_Witness ==
    /\ ret # NoRet /\ ret[1] >= 1
    /\ exit_code_out # <<>>
    /\ selections[ret[1]] >= 2
    /\ \A k \in 1 .. Len(children) : children[k].pid # ret[1]
    /\ \E k \in 1 .. Len(children) :
          /\ \E timer \in timers : timer.task = children[k].pid
          /\ pc[children[k].pid].at = "sleeping"

(***************************************************************************)
(* C25  available[r] never underflows: every step of sys_mutex_lock or     *)
(* sys_semaphore_down that applies deadlock_detection_available_free to    *)
(* resource r finds available[r] at 1 or more, with the detection flag on  *)
(* or off, and no entry of available is ever a wrapped value.              *)
(***************************************************************************)
C25_AvailableNoUnderflow ==
    [][/\ \A t \in Tasks, r \in ResourceIds :
             ( /\ \/ sys_mutex_lock(t, r)
                  \/ sys_semaphore_down(t, r)
                  \/ (pc[t].id = r /\ semaphore_down_return(t))
               /\ available' = deadlock_detection_available_free(available, r, 1) )
             => AvailableOf(available, r) >= 1
       /\ \A r \in ResourceIds : AvailableOf(available', r) >= 0]_vars

(***************************************************************************)
(* C26  allocation[t][r] never underflows: every sys_mutex_unlock(r) and   *)
(* every sys_semaphore_up(r) by task t finds allocation[t][r] at 1 or      *)
(* more, so deadlock_detection_allocation_free never wraps the entry.      *)
(***************************************************************************)
C26_AllocationNoUnderflow ==
    [][/\ \A t \in Tasks, r \in ResourceIds :
             (sys_mutex_unlock(t, r) \/ sys_semaphore_up(t, r))
             => EntryOf(allocation, t, r) >= 1
       /\ \A t \in Tasks, r \in ResourceIds : EntryOf(allocation', t, r) >= 0]_vars

(***************************************************************************)
(* C27  Self re-lock is refused: with detection enabled, sys_mutex_lock(m) *)
(* by the task that owns blocking mutex m returns -0xDEAD and does not     *)
(* suspend the caller, whatever else the process has created.              *)
(***************************************************************************)
C27_SelfRelockRefused ==
    [][\A t \in Tasks, m \in MutexIds :
          ( /\ deadlock_detection
            /\ mutex_list[m + 1].blocking
            /\ mutex_list[m + 1].owner = t
            /\ sys_mutex_lock(t, m) )
          => (ret' = Ret(DEAD) /\ pc'[t] = InUser)]_vars
====
